---- MODULE Spec2Model ----
(***************************************************************************)
(* Model of src/valid.py: the type-aware comparison of two cell values     *)
(* (detect_type, compare) and the validation run that applies it to every  *)
(* (row, column pair) of the selected row range.                           *)
(*                                                                         *)
(* Cell text is a sequence of one-character strings, so that str.strip,    *)
(* str.lower, float(), dateutil's parse and difflib's SequenceMatcher are  *)
(* computed on the characters.  Numbers are counted in halves (10.5 is     *)
(* 21): every number of the model is a small multiple of 1/2, on which     *)
(* Python's float subtraction and comparison are exact.  Similarity        *)
(* ratios and the fuzzy threshold are compared as exact fractions; the     *)
(* threshold is counted in hundredths (0.85 is 85).                        *)
(***************************************************************************)
EXTENDS Integers, Sequences, FiniteSets

VARIABLES
    \* the validation run (src/valid.py:197-233)
    df_preview,     \* the data rows: a sequence of rows, each a function column -> cell
    mapping,        \* the column pairs, in the order supplied
    start_row, end_row, num_tol, fuzzy_tol,
    pc,             \* "idle" | "loop" | "done" | "failed"
    row, pair,      \* position of the nested loops
    mismatches, total_checks,
    \* one call of compare (src/valid.py:159-190)
    arg_a, arg_b, arg_tol, arg_fuzzy, cpc, result

gridVars == <<df_preview, mapping, start_row, end_row, num_tol, fuzzy_tol,
              pc, row, pair, mismatches, total_checks>>
callVars == <<arg_a, arg_b, arg_tol, arg_fuzzy, cpc, result>>
vars == <<gridVars, callVars>>

----------------------------------------------------------------------------
(* Characters and strings *)

UpperCase == <<"A","B","C","D","E","F","G","H","I","J","K","L","M",
               "N","O","P","Q","R","S","T","U","V","W","X","Y","Z">>
LowerCase == <<"a","b","c","d","e","f","g","h","i","j","k","l","m",
               "n","o","p","q","r","s","t","u","v","w","x","y","z">>
Digits == <<"0","1","2","3","4","5","6","7","8","9">>

IsDigit(c) == \E i \in 1..10 : Digits[i] = c
DigitVal(c) == (CHOOSE i \in 1..10 : Digits[i] = c) - 1
IsSpace(c) == c = " "

\* str.lower, one character
LowerChar(c) ==
    IF \E i \in 1..26 : UpperCase[i] = c
    THEN LowerCase[CHOOSE i \in 1..26 : UpperCase[i] = c]
    ELSE c

\* str.lower
lower(s) == [i \in 1..Len(s) |-> LowerChar(s[i])]

\* str.strip: drops the leading and the trailing whitespace
strip(s) ==
    IF \A i \in 1..Len(s) : IsSpace(s[i]) THEN <<>>
    ELSE LET lo == CHOOSE i \in 1..Len(s) :
                       ~IsSpace(s[i]) /\ \A j \in 1..(i-1) : IsSpace(s[j])
             hi == CHOOSE i \in 1..Len(s) :
                       ~IsSpace(s[i]) /\ \A j \in (i+1)..Len(s) : IsSpace(s[j])
         IN  SubSeq(s, lo, hi)

AllDigits(s) == Len(s) > 0 /\ \A i \in 1..Len(s) : IsDigit(s[i])

RECURSIVE IntVal(_)
IntVal(s) == IF Len(s) = 0 THEN 0
             ELSE 10 * IntVal(SubSeq(s, 1, Len(s) - 1)) + DigitVal(s[Len(s)])

----------------------------------------------------------------------------
(* Cell values: absent (None / NaN), a Python float, or text *)

NA == [kind |-> "na", n |-> 0, chars |-> <<>>]
Num(h) == [kind |-> "num", n |-> h, chars |-> <<>>]
Str(s) == [kind |-> "str", n |-> 0, chars |-> s]

\* pd.isna
isna(v) == v.kind = "na"

----------------------------------------------------------------------------
(* Python floats: finite (n halves), +-inf (n the sign), nan *)

Fin(h) == [cls |-> "fin", n |-> h]
Inf(sg) == [cls |-> "inf", n |-> sg]
NaN == [cls |-> "nan", n |-> 0]

\* x - y
FSub(x, y) ==
    IF x.cls = "nan" \/ y.cls = "nan" THEN NaN
    ELSE IF x.cls = "inf" /\ y.cls = "inf"
         THEN (IF x.n = y.n THEN NaN ELSE Inf(x.n))
    ELSE IF x.cls = "inf" THEN Inf(x.n)
    ELSE IF y.cls = "inf" THEN Inf(0 - y.n)
    ELSE Fin(x.n - y.n)

\* abs(x)
FAbs(x) ==
    IF x.cls = "fin" THEN Fin(IF x.n < 0 THEN 0 - x.n ELSE x.n)
    ELSE IF x.cls = "inf" THEN Inf(1)
    ELSE NaN

\* the comparison of line 169 written with < instead of <=
FLe_Strict(x, tol) ==
    IF x.cls = "fin" THEN x.n < tol
    ELSE IF x.cls = "inf" THEN x.n < 0
    ELSE FALSE

\* x <= tol, tol finite: every comparison with nan is false
FLe(x, tol) ==
    IF x.cls = "fin" THEN x.n <= tol
    ELSE IF x.cls = "inf" THEN x.n < 0
    ELSE FALSE

Raised == [ok |-> FALSE, val |-> NaN]
Parsed(x) == [ok |-> TRUE, val |-> x]

\* float(s) of text: surrounding whitespace dropped, an optional sign, then
\* inf / infinity / nan in any case, or digits with at most one decimal,
\* 0 or 5 (the numeric text of the model); anything else raises ValueError.
FloatOfText(s) ==
    LET t == strip(s)
        signed == Len(t) > 0 /\ t[1] \in {"+", "-"}
        sg == IF signed /\ t[1] = "-" THEN 0 - 1 ELSE 1
        body == IF signed THEN SubSeq(t, 2, Len(t)) ELSE t
        low == lower(body)
        dot == IF \E i \in 1..Len(body) : body[i] = "."
               THEN CHOOSE i \in 1..Len(body) : body[i] = "." ELSE 0
    IN  IF low \in {<<"i","n","f">>, <<"i","n","f","i","n","i","t","y">>}
        THEN Parsed(Inf(sg))
        ELSE IF low = <<"n","a","n">> THEN Parsed(NaN)
        ELSE IF AllDigits(body) THEN Parsed(Fin(sg * 2 * IntVal(body)))
        ELSE IF /\ dot > 1 /\ dot = Len(body) - 1
                /\ AllDigits(SubSeq(body, 1, dot - 1))
                /\ body[Len(body)] \in {"0", "5"}
             THEN Parsed(Fin(sg * (2 * IntVal(SubSeq(body, 1, dot - 1))
                                   + (IF body[Len(body)] = "5" THEN 1 ELSE 0))))
        ELSE Raised

\* float(v)
float(v) ==
    IF v.kind = "num" THEN Parsed(Fin(v.n))
    ELSE IF v.kind = "str" THEN FloatOfText(v.chars)
    ELSE Parsed(NaN)

\* str(v): text as it is; a float as Python prints it (10.5, 10.0, -0.5)
RECURSIVE NatStr(_)
NatStr(k) == IF k < 10 THEN <<Digits[k + 1]>>
             ELSE NatStr(k \div 10) \o <<Digits[(k % 10) + 1]>>

str(v) ==
    IF v.kind = "str" THEN v.chars
    ELSE IF v.kind = "num"
         THEN LET m == IF v.n < 0 THEN 0 - v.n ELSE v.n
              IN  (IF v.n < 0 THEN <<"-">> ELSE <<>>) \o NatStr(m \div 2)
                  \o <<".", IF m % 2 = 1 THEN "5" ELSE "0">>
    ELSE <<"n","a","n">>

----------------------------------------------------------------------------
(* dateutil.parser.parse, on the date text of the model: YYYY-MM-DD,       *)
(* YYYY-MM-DD HH:MM and MM/DD/YYYY (DD/MM/YYYY when the first field cannot *)
(* be a month).  It raises ParserError on anything else.  The datetime is  *)
(* kept as its calendar date <<y, m, d>> and its time of day <<h, min>>.   *)

NoDate == [ok |-> FALSE, date |-> <<0, 0, 0>>, time |-> <<0, 0>>]

IsLeap(y) == (y % 4 = 0 /\ y % 100 # 0) \/ y % 400 = 0

DaysIn(y, m) ==
    IF m = 2 THEN (IF IsLeap(y) THEN 29 ELSE 28)
    ELSE IF m \in {4, 6, 9, 11} THEN 30 ELSE 31

ValidDate(y, m, d) == y >= 1 /\ m \in 1..12 /\ d >= 1 /\ d <= DaysIn(y, m)

DateOf(y, m, d, h, mi) ==
    IF ValidDate(y, m, d) /\ h \in 0..23 /\ mi \in 0..59
    THEN [ok |-> TRUE, date |-> <<y, m, d>>, time |-> <<h, mi>>]
    ELSE NoDate

date_parse(s) ==
    LET t == strip(s)
        digitsAt(I) == \A i \in I : IsDigit(t[i])
        num(i, j) == IntVal(SubSeq(t, i, j))
    IN  IF Len(t) = 16
        THEN IF /\ t[5] = "-" /\ t[8] = "-" /\ t[11] = " " /\ t[14] = ":"
                /\ digitsAt({1,2,3,4,6,7,9,10,12,13,15,16})
             THEN DateOf(num(1, 4), num(6, 7), num(9, 10), num(12, 13), num(15, 16))
             ELSE NoDate
        ELSE IF Len(t) # 10 THEN NoDate
        ELSE IF t[5] = "-" /\ t[8] = "-" /\ digitsAt({1,2,3,4,6,7,9,10})
             THEN DateOf(num(1, 4), num(6, 7), num(9, 10), 0, 0)
        ELSE IF t[3] = "/" /\ t[6] = "/" /\ digitsAt({1,2,4,5,7,8,9,10})
             THEN IF num(1, 2) > 12
                  THEN DateOf(num(7, 10), num(4, 5), num(1, 2), 0, 0)
                  ELSE DateOf(num(7, 10), num(1, 2), num(4, 5), 0, 0)
        ELSE NoDate

----------------------------------------------------------------------------
(* Type-aware value comparison *)

detect_type(v) ==
    IF isna(v) THEN "None"
    ELSE IF float(v).ok THEN "number"
    ELSE IF date_parse(str(v)).ok THEN "date"
    ELSE "string"

----------------------------------------------------------------------------
(* difflib.SequenceMatcher(None, a, b).ratio(), no junk *)

\* length of the common run of a from i and b from j, inside a[..ahi], b[..bhi]
RECURSIVE RunLen(_, _, _, _, _, _)
RunLen(a, b, i, j, ahi, bhi) ==
    IF i > ahi \/ j > bhi \/ a[i] # b[j] THEN 0
    ELSE 1 + RunLen(a, b, i + 1, j + 1, ahi, bhi)

\* find_longest_match: the longest block a[i..i+k-1] = b[j..j+k-1] with
\* alo <= i, i+k-1 <= ahi, blo <= j, j+k-1 <= bhi; of the longest, the one
\* starting earliest in a, and of those the one starting earliest in b.
find_longest_match(a, b, alo, ahi, blo, bhi) ==
    LET size(i, j) == RunLen(a, b, i, j, ahi, bhi)
        best == CHOOSE p \in (alo..ahi) \X (blo..bhi) :
                    \A q \in (alo..ahi) \X (blo..bhi) :
                        \/ size(p[1], p[2]) > size(q[1], q[2])
                        \/ /\ size(p[1], p[2]) = size(q[1], q[2])
                           /\ \/ p[1] < q[1]
                              \/ p[1] = q[1] /\ p[2] <= q[2]
    IN  <<best[1], best[2], size(best[1], best[2])>>

\* get_matching_blocks: the total size of the blocks found by splitting
\* around the longest match, to its left and to its right
RECURSIVE matches(_, _, _, _, _, _)
matches(a, b, alo, ahi, blo, bhi) ==
    IF alo > ahi \/ blo > bhi THEN 0
    ELSE LET m == find_longest_match(a, b, alo, ahi, blo, bhi)
         IN  IF m[3] = 0 THEN 0
             ELSE m[3] + matches(a, b, alo, m[1] - 1, blo, m[2] - 1)
                       + matches(a, b, m[1] + m[3], ahi, m[2] + m[3], bhi)

\* ratio() = 2.0 * matches / (len(a) + len(b)), kept as the fraction
\* <<numerator, denominator>>; 1.0 when both are empty
ratio(a, b) ==
    IF Len(a) + Len(b) = 0 THEN <<1, 1>>
    ELSE <<2 * matches(a, b, 1, Len(a), 1, Len(b)), Len(a) + Len(b)>>

\* ratio >= fuzzy, fuzzy in hundredths
RatioGe(r, fuzzy) == 100 * r[1] >= fuzzy * r[2]

\* f"{ratio:.2f}", in hundredths: rounded to nearest, an exact tie to even
Format2f(r) ==
    LET q == (100 * r[1]) \div r[2]
        rem == (100 * r[1]) % r[2]
    IN  IF 2 * rem > r[2] THEN q + 1
        ELSE IF 2 * rem < r[2] THEN q
        ELSE IF q % 2 = 0 THEN q ELSE q + 1

\* the string rule with a fuzzy pass reported like an exact match
string_rule_FuzzyPassIsMatch(a, b, fuzzy) ==
    LET sa == strip(str(a))
        sb == strip(str(b))
        r == ratio(lower(sa), lower(sb))
    IN  IF sa = sb \/ RatioGe(r, fuzzy) THEN <<TRUE, <<"string match">>>>
        ELSE <<FALSE, <<"string mismatch", Format2f(r)>>>>

\* the string rule (src/valid.py:184-190)
string_rule(a, b, fuzzy) ==
    LET sa == strip(str(a))
        sb == strip(str(b))
        r == ratio(lower(sa), lower(sb))
    IN  IF sa = sb THEN <<TRUE, <<"string match">>>>
        ELSE <<RatioGe(r, fuzzy), <<"string mismatch", Format2f(r)>>>>

\* the date rule with a parse failure reported instead of passed on
date_rule_FailsOnParse(a, b) ==
    LET da == date_parse(str(a))
        db == date_parse(str(b))
    IN  IF ~da.ok \/ ~db.ok
        THEN [decided |-> TRUE, res |-> <<FALSE, <<"date parse fail">>>>]
        ELSE IF da.date = db.date
             THEN [decided |-> TRUE, res |-> <<TRUE, <<"date ok">>>>]
             ELSE [decided |-> TRUE, res |-> <<FALSE, <<"date mismatch">>>>]

\* the date rule (src/valid.py:175-182): decided is FALSE when a parse raised
date_rule(a, b) ==
    LET da == date_parse(str(a))
        db == date_parse(str(b))
    IN  IF ~da.ok \/ ~db.ok THEN [decided |-> FALSE, res |-> <<FALSE, <<"">>>>]
        ELSE IF da.date = db.date
             THEN [decided |-> TRUE, res |-> <<TRUE, <<"date ok">>>>]
             ELSE [decided |-> TRUE, res |-> <<FALSE, <<"date mismatch">>>>]

\* the numeric rule with the except clause passing on to the text rule's
\* exact comparison instead of returning "num parse fail"
numeric_rule_ParseFailAsText(a, b, tol) ==
    LET fa == float(a)
        fb == float(b)
    IN  IF ~fa.ok \/ ~fb.ok
        THEN (IF strip(str(a)) = strip(str(b))
              THEN <<TRUE, <<"string match">>>>
              ELSE <<FALSE, <<"string mismatch", 0>>>>)
        ELSE IF FLe(FAbs(FSub(fa.val, fb.val)), tol)
             THEN <<TRUE, <<"num ok">>>>
             ELSE <<FALSE, <<"num mismatch">>>>

\* the numeric rule (src/valid.py:166-173)
numeric_rule(a, b, tol) ==
    LET fa == float(a)
        fb == float(b)
    IN  IF ~fa.ok \/ ~fb.ok THEN <<FALSE, <<"num parse fail">>>>
        ELSE IF FLe(FAbs(FSub(fa.val, fb.val)), tol)
             THEN <<TRUE, <<"num ok">>>>
             ELSE <<FALSE, <<"num mismatch">>>>

\* compare with the absent checks made after the numeric rule
compare_NumericFirst(a, b, tol, fuzzy) ==
    LET ta == detect_type(a)
        tb == detect_type(b)
    IN  IF ta = "number" \/ tb = "number" THEN numeric_rule(a, b, tol)
        ELSE IF isna(a) /\ isna(b) THEN <<TRUE, <<"empty">>>>
        ELSE IF isna(a) THEN <<FALSE, <<"left empty">>>>
        ELSE IF isna(b) THEN <<FALSE, <<"right empty">>>>
        ELSE IF (ta = "date" \/ tb = "date") /\ date_rule(a, b).decided
             THEN date_rule(a, b).res
        ELSE string_rule(a, b, fuzzy)

compare(a, b, tol, fuzzy) ==
    IF isna(a) /\ isna(b) THEN <<TRUE, <<"empty">>>>
    ELSE IF isna(a) THEN <<FALSE, <<"left empty">>>>
    ELSE IF isna(b) THEN <<FALSE, <<"right empty">>>>
    ELSE LET ta == detect_type(a)
             tb == detect_type(b)
         IN  IF ta = "number" \/ tb = "number" THEN numeric_rule(a, b, tol)
             ELSE IF (ta = "date" \/ tb = "date") /\ date_rule(a, b).decided
                  THEN date_rule(a, b).res
             ELSE string_rule(a, b, fuzzy)

----------------------------------------------------------------------------
(* The cell values of the model *)

TextCells == {
    Str(<<"1","0">>), Str(<<"1","0",".","5">>), Str(<<" ","1","0"," ">>),
    Str(<<"1","1">>), Str(<<"i","n","f">>),
    Str(<<"A","p","p","l","e">>), Str(<<"a","p","p","l","e">>),
    Str(<<" ","A","p","p","l","e"," ">>),
    Str(<<"B","o","b">>), Str(<<"B","o","b","b","y">>),
    Str(<<"J","o","n","a","t","h","a","n">>),
    Str(<<"J","o","n","a","t","h","o","n">>),
    Str(<<"2","0","2","4","-","0","1","-","0","5">>),
    Str(<<"0","1","/","0","5","/","2","0","2","4">>),
    Str(<<"2","0","2","4","-","0","1","-","0","6">>),
    Str(<<"2","0","2","4","-","0","1","-","0","5"," ","1","0",":","3","0">>) }

Cells == {NA, Num(20), Num(21)} \cup TextCells

\* numeric tolerances, in halves, and fuzzy thresholds, in hundredths
MaxTol == 2
TolChoices == 0..MaxTol
FuzzyChoices == {0, 30, 85, 100}

----------------------------------------------------------------------------
(* One call of compare on arbitrary cell values *)

NoResult == <<FALSE, <<"">>>>

GridIdle ==
    /\ df_preview = <<>> /\ mapping = <<>>
    /\ start_row = 0 /\ end_row = 0 /\ num_tol = 0 /\ fuzzy_tol = 0
    /\ pc = "off" /\ row = 0 /\ pair = 0
    /\ mismatches = <<>> /\ total_checks = 0

InitCompare ==
    /\ arg_a \in Cells /\ arg_b \in Cells
    /\ arg_tol \in TolChoices /\ arg_fuzzy \in FuzzyChoices
    /\ cpc = "call" /\ result = NoResult
    /\ GridIdle

Compare ==
    /\ cpc = "call"
    /\ result' = compare(arg_a, arg_b, arg_tol, arg_fuzzy)
    /\ cpc' = "return"
    /\ UNCHANGED <<arg_a, arg_b, arg_tol, arg_fuzzy, gridVars>>

NextCompare == Compare

SpecCompare == InitCompare /\ [][NextCompare]_vars

----------------------------------------------------------------------------
(* The validation run *)

\* the (left, right) pairs the mapping is built from: both columns are
\* selected in the LEFT and in the RIGHT multiselect
PairChoices == {<<"A", "B">>, <<"B", "A">>}
\* the rows of the table: column A absent or 10.0, column B 10.0 or "10.5"
RowChoices == {[A |-> a, B |-> b] :
                  a \in {NA, Num(20)}, b \in {Num(20), Str(<<"1","0",".","5">>)}}
GridTolChoices == {0}
GridFuzzyChoices == {85}

MaxRows == 2     \* data rows of the table: 1..MaxRows
MaxPairs == 2    \* column pairs of the mapping: 1..MaxPairs

Tables == UNION {[1..n -> RowChoices] : n \in 1..MaxRows}
Mappings == UNION {[1..n -> PairChoices] : n \in 1..MaxPairs}
\* the Start Row and End Row inputs: any integer >= 0 (min_value=0)
RowInputs == 0..MaxRows

CallIdle ==
    /\ arg_a = NA /\ arg_b = NA /\ arg_tol = 0 /\ arg_fuzzy = 0
    /\ cpc = "off" /\ result = NoResult

Init ==
    /\ df_preview \in Tables
    /\ mapping \in Mappings
    /\ start_row \in RowInputs /\ end_row \in RowInputs
    /\ num_tol \in GridTolChoices /\ fuzzy_tol \in GridFuzzyChoices
    /\ pc = "idle" /\ row = 0 /\ pair = 0
    /\ mismatches = <<>> /\ total_checks = 0
    /\ CallIdle

\* df_preview.iloc[r][c], r counted from 0
Cell(r, c) == df_preview[r + 1][c]

\* the dict appended at src/valid.py:216-223
MismatchRecord(r, lc, rc, left_val, right_val, reason) ==
    [row |-> r, left_column |-> lc, right_column |-> rc,
     left_value |-> left_val, right_value |-> right_val, reason |-> reason]

\* the record put in front of the list instead of at its end
Recorded_Prepend(ms, ok, rec) == IF ~ok THEN <<rec>> \o ms ELSE ms

\* if not ok: mismatches.append(...)
Recorded(ms, ok, rec) == IF ~ok THEN Append(ms, rec) ELSE ms

\* the total with the inclusive end row left out
TotalChecks_Exclusive(s, e, m) == (e - s) * Len(m)

\* total_checks = (end_row - start_row + 1) * len(mapping)
TotalChecks(s, e, m) == (e - s + 1) * Len(m)

\* "Validate Now" pressed: mismatches = [], the row loop starts at start_row
Run ==
    /\ pc = "idle"
    /\ pc' = "loop"
    /\ mismatches' = <<>>
    /\ row' = start_row /\ pair' = 1
    /\ UNCHANGED <<df_preview, mapping, start_row, end_row, num_tol, fuzzy_tol,
                   total_checks, callVars>>

\* one pass of the inner loop body, for (row, mapping[pair])
Check ==
    /\ pc = "loop" /\ row <= end_row /\ row < Len(df_preview)
    /\ LET lc == mapping[pair][1]
           rc == mapping[pair][2]
           left_val == Cell(row, lc)
           right_val == Cell(row, rc)
           res == compare(left_val, right_val, num_tol, fuzzy_tol)
       IN  mismatches' = Recorded(mismatches, res[1],
               MismatchRecord(row, lc, rc, left_val, right_val, res[2]))
    /\ IF pair < Len(mapping)
       THEN pair' = pair + 1 /\ row' = row
       ELSE pair' = 1 /\ row' = row + 1
    /\ UNCHANGED <<df_preview, mapping, start_row, end_row, num_tol, fuzzy_tol,
                   pc, total_checks, callVars>>

\* df_preview.iloc[row] past the last row raises IndexError: the script run
\* ends there, nothing below line 210 is executed
RowOutOfBounds ==
    /\ pc = "loop" /\ row <= end_row /\ row >= Len(df_preview)
    /\ pc' = "failed"
    /\ UNCHANGED <<df_preview, mapping, start_row, end_row, num_tol, fuzzy_tol,
                   row, pair, mismatches, total_checks, callVars>>

\* the loop is over: the total is computed and the summary is shown
Summary ==
    /\ pc = "loop" /\ row > end_row
    /\ total_checks' = TotalChecks(start_row, end_row, mapping)
    /\ pc' = "done"
    /\ UNCHANGED <<df_preview, mapping, start_row, end_row, num_tol, fuzzy_tol,
                   row, pair, mismatches, callVars>>

Next == Run \/ Check \/ RowOutOfBounds \/ Summary

Spec == Init /\ [][Next]_vars

----------------------------------------------------------------------------
(* Properties of the validation run (checked under Spec) *)

\* the (row, pair) combinations of the run in grid order: rows start_row to
\* end_row ascending, and in each row the pairs in the order of the mapping
GridSize == IF end_row >= start_row
            THEN (end_row - start_row + 1) * Len(mapping) ELSE 0

GridItem(i) ==
    LET r == start_row + ((i - 1) \div Len(mapping))
        k == ((i - 1) % Len(mapping)) + 1
        lc == mapping[k][1]
        rc == mapping[k][2]
        res == compare(Cell(r, lc), Cell(r, rc), num_tol, fuzzy_tol)
    IN  [ok |-> res[1],
         rec |-> MismatchRecord(r, lc, rc, Cell(r, lc), Cell(r, rc), res[2])]

IsNonMatch(x) == ~x.ok

NonMatches == SelectSeq([i \in 1..GridSize |-> GridItem(i)], IsNonMatch)

ValidRange == 0 <= start_row /\ start_row <= end_row
              /\ end_row <= Len(df_preview) - 1

\* C1: the mismatch list of a completed run is exactly the subsequence of
\* the grid sequence whose verdict is non-match: nothing matching recorded,
\* nothing non-matching skipped, duplicates counted separately, order kept.
C1_MismatchesAreGridNonMatches ==
    pc = "done" =>
        mismatches = [i \in 1..Len(NonMatches) |-> NonMatches[i].rec]

\* a completed run over two rows with the same pair given twice, one row
\* matching and the other recorded twice
C1_Witness ==
    /\ pc = "done" /\ start_row < end_row
    /\ Len(mapping) = 2 /\ mapping[1] = mapping[2]
    /\ Len(mismatches) = 2 /\ total_checks = 4
    /\ mismatches[1].row = mismatches[2].row

\* C2: the reported total is (end - start + 1) * len(mapping), whatever the
\* number of mismatch records.
C2_TotalChecksFormula ==
    pc = "done" =>
        total_checks = (end_row - start_row + 1) * Len(mapping)

\* a completed run with start = end, one pair, and every pair matching
C2_Witness ==
    /\ pc = "done" /\ start_row = end_row /\ Len(mapping) = 1
    /\ mismatches = <<>> /\ total_checks = 1

\* C3: a run over an invalid row range never completes with a mismatch list
\* and a total as if it had succeeded.
C3_InvalidRangeNeverCompletes ==
    pc = "done" => ValidRange

----------------------------------------------------------------------------
(* Properties of compare (checked under SpecCompare) *)

Returned == cpc = "return"
BothPresent == ~isna(arg_a) /\ ~isna(arg_b)
EitherNumber == detect_type(arg_a) = "number" \/ detect_type(arg_b) = "number"
EitherDate == detect_type(arg_a) = "date" \/ detect_type(arg_b) = "date"
BothParseAsDates == date_parse(str(arg_a)).ok /\ date_parse(str(arg_b)).ok
BothParseAsNumbers == float(arg_a).ok /\ float(arg_b).ok

\* both present, neither a number, and the date rule not deciding
TextPath == BothPresent /\ ~EitherNumber /\ ~(EitherDate /\ BothParseAsDates)

TrimmedA == strip(str(arg_a))
TrimmedB == strip(str(arg_b))
EqualIgnoringCase == lower(TrimmedA) = lower(TrimmedB)

\* C4: in the text path, trimmed values equal ignoring case are a match with
\* the ratio-free reason "string match", for every fuzzy threshold.
C4_CaseInsensitiveStringMatch ==
    (Returned /\ TextPath /\ EqualIgnoringCase)
        => result = <<TRUE, <<"string match">>>>

\* C5: the absent rules come first: both absent is (match, empty), only the
\* left absent is (no match, left empty), only the right absent is (no
\* match, right empty), whatever the other value, tolerance and threshold.
C5_AbsentRulesFirst ==
    Returned =>
        /\ (isna(arg_a) /\ isna(arg_b)) => result = <<TRUE, <<"empty">>>>
        /\ (isna(arg_a) /\ ~isna(arg_b)) => result = <<FALSE, <<"left empty">>>>
        /\ (~isna(arg_a) /\ isna(arg_b)) => result = <<FALSE, <<"right empty">>>>

\* an absent left value compared with a number
C5_Witness ==
    /\ Returned /\ isna(arg_a) /\ arg_b = Num(20)
    /\ result = <<FALSE, <<"left empty">>>>

\* C6: both present, one classified number and a side that does not parse as
\* a number: always (no match, num parse fail), never the date or text rule.
C6_NumParseFail ==
    (Returned /\ BothPresent /\ EitherNumber /\ ~BothParseAsNumbers)
        => result = <<FALSE, <<"num parse fail">>>>

\* a number compared with a date text
C6_Witness ==
    /\ Returned /\ detect_type(arg_a) = "number" /\ detect_type(arg_b) = "date"
    /\ result = <<FALSE, <<"num parse fail">>>>

\* C7: both present, neither a number, one classified date: when both parse
\* as dates, match iff the calendar dates are equal (date ok / date
\* mismatch); otherwise exactly the result of the text rule.
C7_DateRule ==
    (Returned /\ BothPresent /\ ~EitherNumber /\ EitherDate) =>
        IF BothParseAsDates
        THEN LET same == date_parse(str(arg_a)).date = date_parse(str(arg_b)).date
             IN  result = <<same, <<IF same THEN "date ok" ELSE "date mismatch">>>>
        ELSE result = string_rule(arg_a, arg_b, arg_fuzzy)

\* a date text compared with text that is no date: the text rule's result
C7_Witness ==
    /\ Returned /\ detect_type(arg_a) = "date" /\ detect_type(arg_b) = "string"
    /\ result[2][1] = "string mismatch"

\* C8: in the numeric branch with both sides parsed, (match, num ok) iff
\* |left - right| <= tolerance and (no match, num mismatch) otherwise; the
\* bound is inclusive.  A difference that is inf or nan is never <= tolerance.
WithinTolerance ==
    LET x == float(arg_a).val
        y == float(arg_b).val
    IN  /\ x.cls = "fin" /\ y.cls = "fin"
        /\ x.n - y.n <= arg_tol /\ y.n - x.n <= arg_tol

C8_NumericTolerance ==
    (Returned /\ BothPresent /\ EitherNumber /\ BothParseAsNumbers) =>
        result = IF WithinTolerance THEN <<TRUE, <<"num ok">>>>
                 ELSE <<FALSE, <<"num mismatch">>>>

\* two numbers whose difference is exactly the tolerance, not zero
C8_Witness ==
    /\ Returned /\ BothPresent /\ BothParseAsNumbers
    /\ arg_tol > 0
    /\ float(arg_a).val.cls = "fin" /\ float(arg_b).val.cls = "fin"
    /\ float(arg_b).val.n - float(arg_a).val.n = arg_tol
    /\ result = <<TRUE, <<"num ok">>>>

\* C9: in the text path, trimmed strings that are not an exact match are a
\* match iff the ratio of their lower-cased forms is >= the threshold, with
\* the reason "string mismatch" and the ratio to two decimals either way;
\* "string match" is returned only for the exact case.
C9_FuzzyVerdictAndReason ==
    (Returned /\ TextPath) =>
        /\ ~EqualIgnoringCase =>
              LET r == ratio(lower(TrimmedA), lower(TrimmedB))
              IN  result = <<100 * r[1] >= arg_fuzzy * r[2],
                             <<"string mismatch", Format2f(r)>>>>
        /\ result[2] = <<"string match">> => EqualIgnoringCase

\* a pair that passes by fuzzy similarity alone, with its ratio in the reason
C9_Witness ==
    /\ Returned /\ TextPath /\ ~EqualIgnoringCase
    /\ arg_fuzzy = 85
    /\ result = <<TRUE, <<"string mismatch", 88>>>>

\* C10: compare(x, x) is a match for every value x that is not absent.
C10_Reflexive ==
    (Returned /\ ~isna(arg_a) /\ arg_a = arg_b) => result[1] = TRUE

====
